---- MODULE Spec2Model ----
(***************************************************************************)
(* Candidate selectors of citeomatic (citeomatic/candidate_selectors.py):  *)
(* ANNCandidateSelector.fetch_candidates and                               *)
(* BM25CandidateSelector.fetch_candidates over a corpus, a backing index,  *)
(* a query document id and a candidate pool.                               *)
(***************************************************************************)
EXTENDS Integers, Sequences, FiniteSets

\* ------------------------------------------------------------------ bounds

\* The selector is constructed with a top_k in 1..MaxTopK.
MaxTopK == 2

\* A corpus snapshot holds at most MaxCitations citation entries in all.
MaxCitations == 2

\* Document ids. The documents of CorpusIds are in the corpus; the remaining id
\* is known to the index, to pools and to citation lists only.
Ids == {1, 2, 3, 4}

CorpusIds == {1, 2, 3}

\* The documents whose out_citations may be non-empty.
CitingIds == {1, 2}

\* ------------------------------------------------------- Python list helpers

\* set(s) of a list s
SetOf(s) == {s[i] : i \in DOMAIN s}

\* x in s, for a list s
InList(x, s) == \E i \in DOMAIN s : s[i] = x

\* s[:n] for n >= 0
Slice(s, n) == SubSeq(s, 1, IF n < Len(s) THEN n ELSE Len(s))

\* s.remove(x): the list without the first occurrence of x (x is in s)
ListRemove(s, x) ==
    LET i == CHOOSE k \in DOMAIN s : s[k] = x /\ \A j \in 1..(k - 1) : s[j] # x
    IN  SubSeq(s, 1, i - 1) \o SubSeq(s, i + 1, Len(s))

\* [c for c in s if c in pool and c != doc]
RECURSIVE ListFilter(_, _, _)
ListFilter(s, poolset, doc) ==
    IF s = <<>> THEN <<>>
    ELSE (IF Head(s) \in poolset /\ Head(s) # doc THEN <<Head(s)>> ELSE <<>>)
         \o ListFilter(Tail(s), poolset, doc)

\* The lists a set can be turned into by list(set): every order, each once.
ListsOfSet(S) ==
    {s \in [1..Cardinality(S) -> S] : \A i, j \in DOMAIN s : i # j => s[i] # s[j]}

\* ------------------------------------------------------------ collaborators

\* Corpus.__contains__ / the lookup self.corpus[id] succeeds
InCorpus(c, id) == id \in DOMAIN c

\* EmbeddingModel.embed(doc) and query_parser.parse(doc.title): the query the
\* backing index is asked, determined by the document's text.
QueryOf(doc) == doc.title

\* ann.get_nns_by_vector(vector, n) and searcher.search(query, limit=n): the
\* first n entries of the ranking the index holds for the query, as a new list.
IndexQuery(idx, query, n) == Slice(idx[query], n)

\* ------------------------------------------------ fetch_candidates, by step

\* ANN, lines 50-51: the hit list after `if doc_id in nn: nn.remove(doc_id)`
ANNRemoveSelf(nn, doc) == IF InList(doc, nn) THEN ListRemove(nn, doc) ELSE nn

\* Line 52 without the slice: every hit left after the removal is kept.
ANNDirectHitsAll(nn, k) == nn

\* ANN, line 52: candidate_ids = nn_candidates[:self.top_k]
ANNDirectHits(nn, k) == Slice(nn, k)

\* BM25, line 94: candidate_ids = [h['id'] for h in results][:self.top_k]
BM25DirectHits(results, k) == Slice(results, k)

\* lines 57-58 / 98-99: every self.corpus[candidate_id] lookup succeeds
CanExtend(c, cand) == \A i \in DOMAIN cand : InCorpus(c, cand[i])

\* lines 56-58 / 97-99: extended_candidate_ids, the out_citations of every
\* candidate, concatenated in candidate order
RECURSIVE ExtendedCandidateIds(_, _)
ExtendedCandidateIds(c, cand) ==
    IF cand = <<>> THEN <<>>
    ELSE c[Head(cand)].out_citations \o ExtendedCandidateIds(c, Tail(cand))

\* lines 55-59 / 96-100: candidate_ids after the optional expansion
WithCitations(c, cand, extend) ==
    IF extend THEN cand \o ExtendedCandidateIds(c, cand) ELSE cand

\* Lines 61-62 without lines 63-64: doc_id is not taken out again.
ANNFilterKeepSelf(cand, p, doc) == SetOf(cand) \cap SetOf(p)

\* ANN, lines 61-64: set(candidate_ids) & set(pool), minus doc_id
ANNFilter(cand, p, doc) == (SetOf(cand) \cap SetOf(p)) \ {doc}

\* Line 103 without `and c_id != doc_id`.
BM25FilterKeepSelf(cand, p, doc) == SelectSeq(cand, LAMBDA x : x \in SetOf(p))

\* BM25, lines 102-103: [c for c in candidate_ids if c in pool and c != doc_id]
BM25Filter(cand, p, doc) == ListFilter(cand, SetOf(p), doc)

\* Lines 48 / 92 asking for top_k hits only.
QueryLimitNoSpare(k) == k

\* The n the selector asks the index for (lines 48 / 92)
QueryLimit(k) == k + 1

\* Line 45 as a lookup that yields nothing for an unknown id, the call then
\* returning no candidates.
ANNMissingDocumentEmpty ==
    [outcome |-> "returned", limit |-> 0, nn_candidates |-> <<>>,
     candidate_ids |-> <<>>, set |-> {}]

\* ANN, line 45: self.corpus[doc_id] for a doc_id outside the corpus raises;
\* the call ends there, nothing after line 45 runs.
ANNMissingDocument ==
    [outcome |-> "NotFound", limit |-> 0, nn_candidates |-> <<>>,
     candidate_ids |-> <<>>, set |-> {}]

\* BM25, line 89: self.corpus[doc_id] for a doc_id outside the corpus raises.
BM25MissingDocument ==
    [outcome |-> "NotFound", limit |-> 0, nn_candidates |-> <<>>,
     candidate_ids |-> <<>>, list |-> <<>>]

\* ANNCandidateSelector.fetch_candidates as a whole: what the call leaves.
\* outcome "NotFound" is the lookup failure of self.corpus[...] raised to the
\* caller; `set` is the set line 65 turns into the returned list.
ANNFetchCandidates(c, idx, k, extend, doc, p) ==
    IF ~InCorpus(c, doc)
    THEN ANNMissingDocument
    ELSE LET nn   == ANNRemoveSelf(IndexQuery(idx, QueryOf(c[doc]), QueryLimit(k)), doc)
             cand == ANNDirectHits(nn, k)
         IN  IF extend /\ ~CanExtend(c, cand)
             THEN [outcome |-> "NotFound", limit |-> QueryLimit(k),
                   nn_candidates |-> nn, candidate_ids |-> cand, set |-> {}]
             ELSE [outcome |-> "returned", limit |-> QueryLimit(k),
                   nn_candidates |-> nn, candidate_ids |-> cand,
                   set |-> ANNFilter(WithCitations(c, cand, extend), p, doc)]

\* BM25CandidateSelector.fetch_candidates as a whole.
BM25FetchCandidates(c, idx, k, extend, doc, p) ==
    IF ~InCorpus(c, doc)
    THEN BM25MissingDocument
    ELSE LET results == IndexQuery(idx, QueryOf(c[doc]), QueryLimit(k))
             cand    == BM25DirectHits(results, k)
         IN  IF extend /\ ~CanExtend(c, cand)
             THEN [outcome |-> "NotFound", limit |-> QueryLimit(k),
                   nn_candidates |-> results, candidate_ids |-> cand, list |-> <<>>]
             ELSE [outcome |-> "returned", limit |-> QueryLimit(k),
                   nn_candidates |-> results, candidate_ids |-> cand,
                   list |-> BM25Filter(WithCitations(c, cand, extend), p, doc)]

\* ------------------------------------------------------------------- inputs

Min(a, b) == IF a < b THEN a ELSE b

\* <<1, ..., m>>
FirstIds(m) == [i \in 1..m |-> i]

\* s with x put after its first p entries
InsertAt(s, p, x) == SubSeq(s, 1, p) \o <<x>> \o SubSeq(s, p + 1, Len(s))

\* The rankings an index holds for a query: at most MaxTopK + 1 distinct ids.
\* Corpus documents are numbered in the order the index ranks them; the id
\* outside the corpus may stand anywhere in the ranking, or be absent.
Rankings ==
    {FirstIds(m) : m \in 0..Min(MaxTopK + 1, Cardinality(CorpusIds))}
    \cup UNION {{InsertAt(FirstIds(m), p, x) : p \in 0..m, x \in Ids \ CorpusIds} :
                  m \in 0..Min(MaxTopK, Cardinality(CorpusIds))}

\* Citation entries <<citing document, cited id>>, listed by citing document
\* and, for one document, by cited id (an id may be cited twice).
CitationLists ==
    {e \in UNION {[1..n -> CitingIds \X Ids] : n \in 0..MaxCitations} :
        \A i \in 1..(Len(e) - 1) :
            \/ e[i][1] < e[i + 1][1]
            \/ e[i][1] = e[i + 1][1] /\ e[i][2] <= e[i + 1][2]}

\* The out_citations list of document d under the citation entries e
RECURSIVE CitedBy(_, _)
CitedBy(e, d) ==
    IF e = <<>> THEN <<>>
    ELSE (IF Head(e)[1] = d THEN <<Head(e)[2]>> ELSE <<>>) \o CitedBy(Tail(e), d)

Corpora ==
    {[d \in CorpusIds |-> [title |-> d, out_citations |-> CitedBy(e, d)]] :
        e \in CitationLists}

\* The ids of S in increasing order
RECURSIVE SortedList(_)
SortedList(S) ==
    IF S = {} THEN <<>>
    ELSE LET m == CHOOSE x \in S : \A y \in S : x <= y
         IN  <<m>> \o SortedList(S \ {m})

\* The pools a caller passes: any set of ids as a list, or one id given twice.
Pools ==
    {SortedList(S) : S \in SUBSET Ids} \cup {<<x, x>> : x \in Ids}

\* -------------------------------------------------------------------- state

VARIABLES
    top_k,                       \* self.top_k
    extend_candidate_citations,  \* self.extend_candidate_citations
    corpus,                      \* self.corpus: id -> document
    index,                       \* self.ann / self.searcher: query -> ranking
    doc_id,                      \* the caller's doc_id argument
    pool,                        \* the caller's candidate_ids_pool object
    selector,                    \* which selector the last call was made on
    outcome,                     \* how the last call ended
    limit,                       \* the n the last call asked the index for, 0 if none
    nn_candidates,               \* the list the index handed back, as the call left it
    candidate_ids,               \* the direct hits the last call kept (line 52 / 94)
    result,                      \* the list the last call returned
    pc,                          \* interleaved calls: where each call stands
    args,                        \* interleaved calls: what each caller passed
    frame,                       \* interleaved calls: each call's local variables
    ret                          \* interleaved calls: what each call returned

vars == <<top_k, extend_candidate_citations, corpus, index, doc_id, pool,
          selector, outcome, limit, nn_candidates, candidate_ids, result,
          pc, args, frame, ret>>

\* The calls that run interleaved on one selector instance.
Calls == {"a", "b"}

\* The local variables of a call before any is bound.
NoLocals ==
    [doc_id |-> 0, candidate_ids_pool |-> <<>>, query |-> 0,
     nn_candidates |-> <<>>, candidate_ids |-> <<>>]

NoCalls ==
    /\ pc = [c \in Calls |-> "idle"]
    /\ args = [c \in Calls |-> [doc_id |-> 0, pool |-> <<>>]]
    /\ frame = [c \in Calls |-> NoLocals]
    /\ ret = [c \in Calls |-> <<>>]

calls == <<pc, args, frame, ret>>

world == <<top_k, extend_candidate_citations, corpus, index, doc_id, pool>>

last == <<selector, outcome, limit, nn_candidates, candidate_ids, result>>

\* A selector constructed over a corpus and an index snapshot, and a caller
\* holding a doc_id and a pool; no call made yet. One document is queried in a
\* behaviour, so the index holds the same ranking for every query.
Init ==
    /\ top_k \in 1..MaxTopK
    /\ extend_candidate_citations \in BOOLEAN
    /\ corpus \in Corpora
    /\ index \in {[q \in Ids |-> r] : r \in Rankings}
    /\ doc_id \in Ids
    /\ pool \in Pools
    /\ selector = "none"
    /\ outcome = "none"
    /\ limit = 0
    /\ nn_candidates = <<>>
    /\ candidate_ids = <<>>
    /\ result = <<>>
    /\ NoCalls

\* One call of ANNCandidateSelector.fetch_candidates(doc_id, pool)
ANNFetch ==
    LET r == ANNFetchCandidates(corpus, index, top_k, extend_candidate_citations,
                                doc_id, pool)
    IN  /\ selector' = "ANN"
        /\ outcome' = r.outcome
        /\ limit' = r.limit
        /\ nn_candidates' = r.nn_candidates
        /\ candidate_ids' = r.candidate_ids
        /\ result' \in ListsOfSet(r.set)
        /\ UNCHANGED <<world, calls>>

\* One call of BM25CandidateSelector.fetch_candidates(doc_id, pool)
BM25Fetch ==
    LET r == BM25FetchCandidates(corpus, index, top_k, extend_candidate_citations,
                                 doc_id, pool)
    IN  /\ selector' = "BM25"
        /\ outcome' = r.outcome
        /\ limit' = r.limit
        /\ nn_candidates' = r.nn_candidates
        /\ candidate_ids' = r.candidate_ids
        /\ result' = r.list
        /\ UNCHANGED <<world, calls>>

Next == ANNFetch \/ BM25Fetch

Spec == Init /\ [][Next]_vars

\* ------------------------------------- interleaved calls on one selector

\* Every call using one shared set of local variables, as if the locals were
\* attributes of the selector.
FrameShared(c) == "a"

\* The local variables a call reads and writes: its own (the locals of
\* fetch_candidates, lines 44-65 and 88-105, exist once per call).
Frame(c) == c

\* The pools the interleaved callers pass: all ids but one.
ConcPools == {SortedList(Ids \ {x}) : x \in Ids}

\* The snapshot the interleaved calls run against: document 1 is its own
\* nearest hit, the hits of document 2 hold an id outside the corpus, document
\* 3 is not among its own hits; 1 cites an id outside the corpus and 2 cites 1.
ConcIndex == <<<<1, 2, 3>>, <<3, 2, 4>>, <<1, 2>>, <<>>>>

ConcCorpus ==
    [d \in CorpusIds |->
        [title |-> d, out_citations |-> CitedBy(<<<<1, 4>>, <<2, 1>>>>, d)]]

InitConc ==
    /\ top_k \in 1..MaxTopK
    /\ extend_candidate_citations \in BOOLEAN
    /\ corpus = ConcCorpus
    /\ index = ConcIndex
    /\ selector \in {"ANN", "BM25"}
    /\ doc_id = 1
    /\ pool = <<>>
    /\ outcome = "none"
    /\ limit = 0
    /\ nn_candidates = <<>>
    /\ candidate_ids = <<>>
    /\ result = <<>>
    /\ NoCalls

Goto(c, label) == pc' = [pc EXCEPT ![c] = label]

\* A caller enters fetch_candidates(doc_id, candidate_ids_pool): lines 44 / 88
Invoke(c) ==
    /\ pc[c] = "idle"
    /\ \E d \in Ids, p \in ConcPools :
          /\ args' = [args EXCEPT ![c] = [doc_id |-> d, pool |-> p]]
          /\ frame' = [frame EXCEPT ![Frame(c)].doc_id = d,
                                    ![Frame(c)].candidate_ids_pool = p]
    /\ Goto(c, "lookup")
    /\ UNCHANGED <<world, last, ret>>

\* lines 45-46 / 89-91: the document is looked up and turned into the query
Lookup(c) ==
    /\ pc[c] = "lookup"
    /\ LET f == frame[Frame(c)]
       IN  IF InCorpus(corpus, f.doc_id)
           THEN /\ frame' = [frame EXCEPT ![Frame(c)].query = QueryOf(corpus[f.doc_id])]
                /\ Goto(c, "query")
           ELSE /\ frame' = frame
                /\ Goto(c, "raised")
    /\ UNCHANGED <<world, last, args, ret>>

\* lines 48 / 92: the index is asked for top_k + 1 hits
Query(c) ==
    /\ pc[c] = "query"
    /\ LET f == frame[Frame(c)]
       IN  frame' = [frame EXCEPT ![Frame(c)].nn_candidates =
                        IndexQuery(index, f.query, QueryLimit(top_k))]
    /\ Goto(c, IF selector = "ANN" THEN "remove" ELSE "slice")
    /\ UNCHANGED <<world, last, args, ret>>

\* ANN, lines 50-51: doc_id is removed from the hit list
RemoveSelf(c) ==
    /\ pc[c] = "remove"
    /\ LET f == frame[Frame(c)]
       IN  frame' = [frame EXCEPT ![Frame(c)].nn_candidates =
                        ANNRemoveSelf(f.nn_candidates, f.doc_id)]
    /\ Goto(c, "slice")
    /\ UNCHANGED <<world, last, args, ret>>

\* lines 52 / 94: the first top_k hits become candidate_ids
SliceHits(c) ==
    /\ pc[c] = "slice"
    /\ LET f == frame[Frame(c)]
       IN  frame' = [frame EXCEPT ![Frame(c)].candidate_ids =
                        IF selector = "ANN"
                        THEN ANNDirectHits(f.nn_candidates, top_k)
                        ELSE BM25DirectHits(f.nn_candidates, top_k)]
    /\ Goto(c, "extend")
    /\ UNCHANGED <<world, last, args, ret>>

\* lines 55-59 / 96-100: the citations of the candidates are appended
Extend(c) ==
    /\ pc[c] = "extend"
    /\ LET f == frame[Frame(c)]
       IN  IF extend_candidate_citations /\ ~CanExtend(corpus, f.candidate_ids)
           THEN /\ frame' = frame
                /\ Goto(c, "raised")
           ELSE /\ frame' = [frame EXCEPT ![Frame(c)].candidate_ids =
                        WithCitations(corpus, f.candidate_ids,
                                      extend_candidate_citations)]
                /\ Goto(c, "filter")
    /\ UNCHANGED <<world, last, args, ret>>

\* lines 61-65 / 102-105: the candidates are filtered by the pool and returned
FilterReturn(c) ==
    /\ pc[c] = "filter"
    /\ LET f == frame[Frame(c)]
       IN  IF selector = "ANN"
           THEN \E r \in ListsOfSet(ANNFilter(f.candidate_ids,
                                              f.candidate_ids_pool, f.doc_id)) :
                    ret' = [ret EXCEPT ![c] = r]
           ELSE ret' = [ret EXCEPT ![c] =
                    BM25Filter(f.candidate_ids, f.candidate_ids_pool, f.doc_id)]
    /\ Goto(c, "returned")
    /\ UNCHANGED <<world, last, args, frame>>

NextConc ==
    \E c \in Calls :
        \/ Invoke(c)
        \/ Lookup(c)
        \/ Query(c)
        \/ RemoveSelf(c)
        \/ SliceHits(c)
        \/ Extend(c)
        \/ FilterReturn(c)

SpecConc == InitConc /\ [][NextConc]_vars

\* ------------------------------------------------------------------- claims

\* The hit list the index hands the last call: the first top_k + 1 entries of
\* the ranking it holds for the query document.
Hits == SubSeq(index[doc_id], 1, Min(top_k + 1, Len(index[doc_id])))

Called == selector # "none"

Returned == outcome = "returned"

NoRepeats(s) == \A i, j \in DOMAIN s : i # j => s[i] # s[j]

\* C1: every id fetch_candidates returns is in the pool, and doc_id is never
\* returned, on either selector.
C1_InPoolAndNotSelf ==
    Returned => SetOf(result) \subseteq SetOf(pool) /\ doc_id \notin SetOf(result)

\* C1 witness: a call with citation expansion has returned candidates although
\* doc_id is in the pool, is one of the index's hits and is cited by a kept hit.
C1_Witness ==
    /\ Returned /\ result # <<>> /\ extend_candidate_citations
    /\ doc_id \in SetOf(pool)
    /\ InList(doc_id, Hits)
    /\ \E i \in DOMAIN candidate_ids :
          InList(doc_id, corpus[candidate_ids[i]].out_citations)

\* C2: the returned collection holds each id at most once.
C2_NoDuplicates == Returned => NoRepeats(result)

\* C3: when doc_id is not in the corpus the call ends in NotFound, before the
\* index is asked anything, and returns no collection.
C3_NotFoundBeforeQuery ==
    (Called /\ ~InCorpus(corpus, doc_id))
        => outcome = "NotFound" /\ limit = 0 /\ result = <<>>

\* C3 witness: a call was made for a doc_id outside the corpus, with a pool
\* that is not empty and an index that holds hits.
C3_Witness ==
    Called /\ ~InCorpus(corpus, doc_id) /\ pool # <<>> /\ index[doc_id] # <<>>

\* C4: for a doc_id in the corpus the call completes without error, whatever
\* ids outside the corpus the pool, the citation lists or the hits hold.
C4_ToleratesAbsentIds == (Called /\ InCorpus(corpus, doc_id)) => Returned

\* What a call on the same selector, corpus, index, doc_id, top_k and pool
\* leaves when citation expansion is disabled.
ExpansionOff ==
    IF selector = "ANN"
    THEN LET r == ANNFetchCandidates(corpus, index, top_k, FALSE, doc_id, pool)
         IN  [outcome |-> r.outcome, ids |-> r.set]
    ELSE LET r == BM25FetchCandidates(corpus, index, top_k, FALSE, doc_id, pool)
         IN  [outcome |-> r.outcome, ids |-> SetOf(r.list)]

\* C5: whenever the call with expansion disabled returns a set, the call with
\* expansion enabled, on the same corpus, index, doc_id, top_k and pool,
\* returns a set that includes it.
C5_ExpansionSuperset ==
    (Called /\ extend_candidate_citations /\ ExpansionOff.outcome = "returned")
        => Returned /\ ExpansionOff.ids \subseteq SetOf(result)

\* The direct hits H of C6: the first top_k ids of Hits once doc_id is left out.
C6_H ==
    {Hits[i] : i \in {j \in DOMAIN Hits :
        /\ Hits[j] # doc_id
        /\ Cardinality({m \in 1..j : Hits[m] # doc_id}) <= top_k}}

\* The expansion C of H: the ids the documents of H cite, one level only.
CitedByAny(H) ==
    IF extend_candidate_citations
    THEN UNION {SetOf(corpus[h].out_citations) : h \in H \cap DOMAIN corpus}
    ELSE {}

\* C6: the ANN selector returns exactly ((H \cup C) \cap P) \ {doc_id}.
C6_ANNExact ==
    (selector = "ANN" /\ Returned) =>
        SetOf(result) = ((C6_H \cup CitedByAny(C6_H)) \cap SetOf(pool)) \ {doc_id}

\* C6 witness: the ANN selector returned when doc_id was among the top_k + 1
\* hits, top_k hits remained, and expansion added an id that is no direct hit.
C6_Witness ==
    /\ selector = "ANN" /\ Returned
    /\ InList(doc_id, Hits) /\ Len(Hits) = top_k + 1
    /\ Len(candidate_ids) = top_k
    /\ SetOf(candidate_ids) \subseteq SetOf(result)
    /\ SetOf(result) \ SetOf(candidate_ids) # {}

\* The direct hits H of C7: the first top_k ids of Hits.
C7_H == {Hits[i] : i \in {j \in DOMAIN Hits : j <= top_k}}

\* C7: the BM25 selector asks the index for top_k + 1 hits and returns, as a
\* set, exactly the ids of H and of its expansion that are in P and are not
\* doc_id.
C7_BM25Exact ==
    (selector = "BM25" /\ Returned) =>
        /\ limit = top_k + 1
        /\ SetOf(result) =
             {x \in C7_H \cup CitedByAny(C7_H) : x \in SetOf(pool) /\ x # doc_id}

\* C7 witness: the BM25 selector returned candidates when the index held
\* top_k + 1 hits, doc_id among the first top_k, and the pool left some hit out.
C7_Witness ==
    /\ selector = "BM25" /\ Returned /\ C7_H \cap SetOf(result) # {}
    /\ Len(Hits) = top_k + 1
    /\ doc_id \in C7_H
    /\ C7_H \ SetOf(pool) # {}

\* C8: at most top_k hits are carried into expansion and filtering, and with
\* expansion disabled at most top_k distinct ids are returned.
C8_TopKBoundsDirectHits ==
    /\ Len(candidate_ids) <= top_k
    /\ (Returned /\ ~extend_candidate_citations)
          => Cardinality(SetOf(result)) <= top_k

\* C8 witness: with expansion enabled a call returned more than top_k ids,
\* from an index that held more than top_k hits.
C8_Witness ==
    /\ Returned /\ extend_candidate_citations
    /\ Len(Hits) > top_k
    /\ Cardinality(SetOf(result)) > top_k

\* C9: a call changes neither the selector's configuration, the corpus, the
\* caller's pool nor the index's data, the hit list the index handed back
\* included, and a repeated call returns the same set.
C9_NoSideEffects ==
    [][/\ UNCHANGED world
       /\ (selector' = "ANN" /\ limit' > 0) => nn_candidates' = Hits
       /\ (selector' = "BM25" /\ limit' > 0) => nn_candidates' = Hits
       /\ (selector' = selector /\ Returned)
             => outcome' = "returned" /\ SetOf(result') = SetOf(result)]_vars

\* What call c returns when it runs alone against the same selector.
Alone(c) ==
    IF selector = "ANN"
    THEN LET r == ANNFetchCandidates(corpus, index, top_k,
                       extend_candidate_citations, args[c].doc_id, args[c].pool)
         IN  [outcome |-> r.outcome, ids |-> r.set]
    ELSE LET r == BM25FetchCandidates(corpus, index, top_k,
                       extend_candidate_citations, args[c].doc_id, args[c].pool)
         IN  [outcome |-> r.outcome, ids |-> SetOf(r.list)]

\* C10: whatever the interleaving of the calls' steps, each call ends as it
\* would alone: it returns the same set, or fails where it would fail alone.
C10_InterleavedAsAlone ==
    \A c \in Calls :
        /\ pc[c] = "returned" =>
              Alone(c).outcome = "returned" /\ SetOf(ret[c]) = Alone(c).ids
        /\ pc[c] = "raised" => Alone(c).outcome = "NotFound"

\* C10 witness: call a returned candidates while call b, made for another
\* doc_id and another pool, was between its index query and its filtering.
C10_Witness ==
    /\ pc["a"] = "returned" /\ ret["a"] # <<>>
    /\ pc["b"] \in {"remove", "slice", "extend", "filter"}
    /\ args["a"].doc_id # args["b"].doc_id
    /\ args["a"].pool # args["b"].pool

====
